---- MODULE Spec2Model ----
(***************************************************************************)
(* JustPlug plugin manager (src/src/pluginmanager.cpp).                    *)
(*                                                                         *)
(* State: the registry pluginsMap (name -> Plugin record), its iteration   *)
(* order, the load-order list, the locations list and the library images   *)
(* that stayed loaded after their record was destroyed.  One action per    *)
(* public operation: searchForPlugins, loadPlugins, unloadPlugins, and one *)
(* for the request router handleRequest.  Each action records what the     *)
(* call returned, the callbacks it made and the plugin notifications /     *)
(* library events it caused, in program order.                             *)
(***************************************************************************)
EXTENDS Integers, Sequences, FiniteSets, TLC

(***************************************************************************)
(* Bounds of the model.                                                    *)
(***************************************************************************)
\* library images that may stay loaded after their record was destroyed
MaxLeaked == 1

(***************************************************************************)
(* ReturnCode::Type                                                        *)
(***************************************************************************)
SUCCESS == "SUCCESS"
SEARCH_NOTHING_FOUND == "SEARCH_NOTHING_FOUND"
SEARCH_CANNOT_PARSE_METADATA == "SEARCH_CANNOT_PARSE_METADATA"
SEARCH_NAME_ALREADY_EXISTS == "SEARCH_NAME_ALREADY_EXISTS"
SEARCH_LISTFILES_ERROR == "SEARCH_LISTFILES_ERROR"
LOAD_DEPENDENCY_BAD_VERSION == "LOAD_DEPENDENCY_BAD_VERSION"
LOAD_DEPENDENCY_NOT_FOUND == "LOAD_DEPENDENCY_NOT_FOUND"
LOAD_DEPENDENCY_CYCLE == "LOAD_DEPENDENCY_CYCLE"
UNLOAD_NOT_ALL == "UNLOAD_NOT_ALL"

\* the call did not return: unbounded recursion or a null dereference
NO_RETURN == "NO_RETURN"

\* the call returns no ReturnCode (handleRequest returns a uint16_t)
NO_CODE == "NO_CODE"

ReturnCodes ==
    { SUCCESS, SEARCH_NOTHING_FOUND, SEARCH_CANNOT_PARSE_METADATA,
      SEARCH_NAME_ALREADY_EXISTS, SEARCH_LISTFILES_ERROR,
      LOAD_DEPENDENCY_BAD_VERSION, LOAD_DEPENDENCY_NOT_FOUND,
      LOAD_DEPENDENCY_CYCLE, UNLOAD_NOT_ALL }

(***************************************************************************)
(* The environment: library files on disk.  A file has a path, the         *)
(* directory that lists it, whether the loader can load it, whether it     *)
(* exports the three symbols, whether its image can refuse to unload, its  *)
(* jp_name string and its jp_metadata descriptor.                          *)
(***************************************************************************)
JP_PLUGIN_API == 1

Dep(n, v) == [name |-> n, version |-> v]

Meta(ok, api, n, v, deps) ==
    [wellFormed |-> ok, api |-> api, name |-> n, prettyName |-> "pretty " \o n,
     version |-> v, author |-> "author of " \o n, url |-> "url of " \o n,
     license |-> "license of " \o n, copyright |-> "copyright of " \o n,
     dependencies |-> deps]

File(p, d, loadable, syms, sticky, jp, meta) ==
    [path |-> p, dir |-> d, loadable |-> loadable, symbols |-> syms,
     sticky |-> sticky, jp_name |-> jp, jp_metadata |-> meta]

AllFiles ==
    << File("d1/a",   "d1",   TRUE,  TRUE,  FALSE, "A", Meta(TRUE, 1, "A", 1, <<Dep("B", 1)>>)),
       File("d1/c",   "d1",   TRUE,  TRUE,  TRUE,  "C", Meta(TRUE, 1, "C", 1, <<>>)),
       File("d1/s/b", "d1/s", TRUE,  TRUE,  FALSE, "B", Meta(TRUE, 1, "B", 1, <<Dep("C", 1)>>)),
       File("d1/s/v", "d1/s", TRUE,  TRUE,  FALSE, "V", Meta(TRUE, 1, "V", 1, <<Dep("A", 1), Dep("B", 2)>>)),
       File("d3/a2",  "d3",   TRUE,  TRUE,  FALSE, "A", Meta(TRUE, 1, "A2", 2, <<Dep("M", 1)>>)),
       File("d3/j",   "d3",   TRUE,  TRUE,  FALSE, "J", Meta(FALSE, 1, "J", 1, <<>>)),
       File("d3/n",   "d3",   TRUE,  FALSE, FALSE, "",  Meta(FALSE, 1, "", 1, <<>>)),
       File("d3/u",   "d3",   FALSE, FALSE, FALSE, "",  Meta(FALSE, 1, "", 1, <<>>)),
       File("d4/p",   "d4",   TRUE,  TRUE,  FALSE, "P", Meta(TRUE, 1, "P", 1, <<Dep("Q", 1)>>)),
       File("d4/q",   "d4",   TRUE,  TRUE,  FALSE, "Q", Meta(TRUE, 1, "Q", 1, <<Dep("P", 1)>>)),
       File("d5/s",   "d5",   TRUE,  TRUE,  FALSE, "S", Meta(TRUE, 1, "S", 1, <<Dep("S", 1)>>)) >>

\* the disks the manager is run on: one with a dependency chain, a missing
\* dependency, a version mismatch and a duplicate name; one with a mutual
\* and a self dependency next to a loadable plugin and a plugin whose
\* dependency is missing
Disks == { {1, 2, 3, 4, 5, 6, 7, 8}, {1, 2, 9, 10, 11} }

Paths == { AllFiles[i].path : i \in 1..Len(AllFiles) }

DirsOf(files) == { AllFiles[i].dir : i \in files } \cup { "d0" }

(***************************************************************************)
(* Program state.                                                          *)
(***************************************************************************)
VARIABLES
    pluginsMap,     \* PlugMgrPrivate::pluginsMap: name -> Plugin
    mapOrder,       \* iteration order of pluginsMap (a sequence of its keys)
    loadOrderList,  \* PlugMgrPrivate::loadOrderList
    locations,      \* PlugMgrPrivate::locations
    leaked,         \* path -> images still loaded whose Plugin was destroyed
    loadedSeq,      \* names of the live instances, in the order of loaded()
    lastOp,         \* the last public call and its arguments
    lastRet,        \* what it returned (NO_RETURN when it crashed)
    lastAnswer,     \* the uint16_t returned by the last handleRequest call
    log,            \* notifications and library events of the last call
    cbs,            \* callback invocations of the last call
    depth,          \* deepest checkDependencies recursion of the last call
    crashed,        \* the process died inside the last call
    disk,           \* the library files that exist (never changes)
    insertFront     \* pluginsMap puts a new key first (never changes)

vars == << pluginsMap, mapOrder, loadOrderList, locations, leaked, loadedSeq,
           lastOp, lastRet, lastAnswer, log, cbs, depth, crashed, disk,
           insertFront >>

(***************************************************************************)
(* Small helpers.                                                          *)
(***************************************************************************)
Max(a, b) == IF a >= b THEN a ELSE b

Range(s) == { s[i] : i \in 1..Len(s) }

RECURSIVE Reverse(_)
Reverse(s) == IF s = <<>> THEN <<>> ELSE Append(Reverse(Tail(s)), Head(s))

RECURSIVE SelectNames(_, _)
\* the subsequence of s whose elements are in set S
SelectNames(s, S) ==
    IF s = <<>> THEN <<>>
    ELSE IF Head(s) \in S THEN <<Head(s)>> \o SelectNames(Tail(s), S)
    ELSE SelectNames(Tail(s), S)

\* s without the element x
Without(s, x) == SelectNames(s, Range(s) \ {x})

\* position of x in s, 0 when absent
IndexOf(s, x) ==
    IF x \in Range(s) THEN CHOOSE i \in 1..Len(s) : s[i] = x ELSE 0

Erase(pm, n) == [k \in DOMAIN pm \ {n} |-> pm[k]]

Event(e, n) == [ev |-> e, name |-> n]

Callback(c, d) == [code |-> c, detail |-> d]

(***************************************************************************)
(* Version(declared).compatible(required): versions are natural numbers,   *)
(* a declared version satisfies every required minimum up to itself.       *)
(***************************************************************************)
compatible(declared, required) == declared >= required

(***************************************************************************)
(* PluginInfoStd and Plugin.                                               *)
(***************************************************************************)
PluginInfoStd(n, pn, v, au, url, li, co, deps) ==
    [name |-> n, prettyName |-> pn, version |-> v, author |-> au, url |-> url,
     license |-> li, copyright |-> co, dependencies |-> deps]

\* PluginInfoStd(): every string empty, no dependency
EmptyInfo == PluginInfoStd("", "", 0, "", "", "", "", <<>>)

\* PluginInfoStd::toPluginInfo(): a copy of every string, the dependencies
\* as an array of jp::Dependency with its length
toPluginInfo(info) ==
    [name |-> info.name, prettyName |-> info.prettyName, version |-> info.version,
     author |-> info.author, url |-> info.url, license |-> info.license,
     copyright |-> info.copyright,
     dependencies |-> [k \in 1..Len(info.dependencies) |->
                         [name |-> info.dependencies[k].name,
                          version |-> info.dependencies[k].version]],
     dependenciesNb |-> Len(info.dependencies)]

\* PluginInfo(): no string, no dependency
NoPluginInfo ==
    [name |-> "", prettyName |-> "", version |-> 0, author |-> "", url |-> "",
     license |-> "", copyright |-> "", dependencies |-> <<>>, dependenciesNb |-> 0]

\* the Plugin that searchForPlugins stores: library loaded, no instance,
\* dependenciesExists indeterminate, graphId -1
Plugin(path, info) ==
    [path |-> path, info |-> info, libLoaded |-> TRUE, iplugin |-> FALSE,
     dependenciesExists |-> "Indeterminate", graphId |-> -1]

parseMetadata(metadata) ==
    IF metadata.wellFormed /\ compatible(metadata.api, JP_PLUGIN_API)
    THEN PluginInfoStd(metadata.name, metadata.prettyName, metadata.version,
                       metadata.author, metadata.url, metadata.license,
                       metadata.copyright, metadata.dependencies)
    ELSE EmptyInfo

(***************************************************************************)
(* checkDependencies(plugin, callbackFunc), on the record stored under     *)
(* key n.  onStack holds the records whose call is still on the stack.     *)
(* The result carries the return code, the registry with the updated       *)
(* flags, the callbacks made and the recursion depth reached.  A call on   *)
(* an indeterminate record that is already on the stack repeats the same   *)
(* recursion for ever: the code is NO_RETURN and the depth exceeds the     *)
(* number of records.                                                      *)
(***************************************************************************)
CheckResult(r, pm, c, d) == [ret |-> r, pm |-> pm, cbs |-> c, depth |-> d]

MemoisedFailure(pm, n) ==
    IF pm[n].info.name \notin DOMAIN pm
    THEN LOAD_DEPENDENCY_NOT_FOUND
    ELSE LOAD_DEPENDENCY_BAD_VERSION

SetFlag(pm, n, f) == [pm EXCEPT ![n].dependenciesExists = f]

ReportDependency(code, pm, n, cb) ==
    IF cb THEN << Callback(code, pm[n].path) >> ELSE <<>>

\* Propagate that marks the record as failed
PropagateMarking(r, n) == [r EXCEPT !.pm = SetFlag(r.pm, n, "False")]

\* the check of a dependency of n did not succeed: its result is the result
\* of the check of n, whose flag is left as it is
Propagate(r, n) == r

RECURSIVE checkDependencies(_, _, _, _)
RECURSIVE checkDependenciesFrom(_, _, _, _, _)

checkDependencies(pm, n, onStack, cb) ==
    IF pm[n].dependenciesExists # "Indeterminate"
    THEN CheckResult(IF pm[n].dependenciesExists = "True"
                     THEN SUCCESS ELSE MemoisedFailure(pm, n),
                     pm, <<>>, Cardinality(onStack) + 1)
    ELSE IF n \in onStack
    THEN CheckResult(NO_RETURN, pm, <<>>, Cardinality(DOMAIN pm) + 1)
    ELSE checkDependenciesFrom(pm, n, 1, onStack \cup {n}, cb)

\* the for loop of checkDependencies, from dependency number i on
checkDependenciesFrom(pm, n, i, onStack, cb) ==
    IF i > Len(pm[n].info.dependencies)
    THEN CheckResult(SUCCESS, SetFlag(pm, n, "True"), <<>>, Cardinality(onStack))
    ELSE
      LET depName == pm[n].info.dependencies[i].name
          depVer  == pm[n].info.dependencies[i].version
      IN
      IF depName \notin DOMAIN pm
      THEN CheckResult(LOAD_DEPENDENCY_NOT_FOUND, SetFlag(pm, n, "False"),
                       ReportDependency(LOAD_DEPENDENCY_NOT_FOUND, pm, n, cb),
                       Cardinality(onStack))
      ELSE IF ~compatible(pm[depName].info.version, depVer)
      THEN CheckResult(LOAD_DEPENDENCY_BAD_VERSION, SetFlag(pm, n, "False"),
                       ReportDependency(LOAD_DEPENDENCY_BAD_VERSION, pm, n, cb),
                       Cardinality(onStack))
      ELSE
        LET r == checkDependencies(pm, depName, onStack, cb) IN
        IF r.ret # SUCCESS
        THEN Propagate(r, n)
        ELSE
          LET rest == checkDependenciesFrom(r.pm, n, i + 1, onStack, cb) IN
          CheckResult(rest.ret, rest.pm, r.cbs \o rest.cbs,
                      Max(r.depth, rest.depth))

(***************************************************************************)
(* fsutil::listLibrariesInDir: the library files of a directory, and of    *)
(* its subdirectories when recursive, in a fixed listing order.  When the  *)
(* listing fails it has produced either nothing or the whole list.         *)
(***************************************************************************)
SubDirs(dir) == IF dir = "d1" THEN {"d1/s"} ELSE {}

InListing(f, dir, recursive) ==
    \/ AllFiles[f].dir = dir
    \/ recursive /\ AllFiles[f].dir \in SubDirs(dir)

RECURSIVE ListFrom(_, _, _, _)
ListFrom(f, files, dir, recursive) ==
    IF f > Len(AllFiles) THEN <<>>
    ELSE IF f \in files /\ InListing(f, dir, recursive)
    THEN <<f>> \o ListFrom(f + 1, files, dir, recursive)
    ELSE ListFrom(f + 1, files, dir, recursive)

listLibrariesInDir(files, dir, recursive) == ListFrom(1, files, dir, recursive)

PartialListings(s) == { <<>>, s }

(***************************************************************************)
(* searchForPlugins(pluginDir, recursive, callbackFunc)                    *)
(***************************************************************************)
SearchState(pm, added, c, l) == [pm |-> pm, added |-> added, cbs |-> c, log |-> l]

ReportPath(code, path, cb) == IF cb THEN << Callback(code, path) >> ELSE <<>>

\* a candidate that was not stored keeps its image loaded
DiscardCandidateLeak(file) == <<>>

\* ~Plugin() of a candidate that was not stored: an image that is loaded is
\* unloaded again (the unload of an image that was only opened and read
\* is taken to succeed)
DiscardCandidate(file) ==
    IF file.loadable THEN << Event("libUnload", file.path) >> ELSE <<>>

LoadCandidate(file) ==
    IF file.loadable THEN << Event("libLoad", file.path) >> ELSE <<>>

\* one iteration that stores the candidate without looking for its name in
\* the registry
SearchOneOverwrite(st, file, cb) ==
    IF file.loadable /\ file.symbols
    THEN
      LET info == parseMetadata(file.jp_metadata) IN
      IF info.name = ""
      THEN SearchState(st.pm, st.added,
                       st.cbs \o ReportPath(SEARCH_CANNOT_PARSE_METADATA, file.path, cb),
                       st.log \o LoadCandidate(file) \o DiscardCandidate(file))
      ELSE SearchState((file.jp_name :> Plugin(file.path, info)) @@ st.pm,
                       Append(st.added, file.jp_name),
                       st.cbs,
                       st.log \o LoadCandidate(file))
    ELSE SearchState(st.pm, st.added, st.cbs,
                     st.log \o LoadCandidate(file) \o DiscardCandidate(file))

\* one iteration of the for loop over libList
SearchOne(st, file, cb) ==
    IF file.loadable /\ file.symbols
    THEN
      IF file.jp_name \in DOMAIN st.pm
      THEN SearchState(st.pm, st.added,
                       st.cbs \o ReportPath(SEARCH_NAME_ALREADY_EXISTS, file.path, cb),
                       st.log \o LoadCandidate(file) \o DiscardCandidate(file))
      ELSE
        LET info == parseMetadata(file.jp_metadata) IN
        IF info.name = ""
        THEN SearchState(st.pm, st.added,
                         st.cbs \o ReportPath(SEARCH_CANNOT_PARSE_METADATA, file.path, cb),
                         st.log \o LoadCandidate(file) \o DiscardCandidate(file))
        ELSE SearchState((file.jp_name :> Plugin(file.path, info)) @@ st.pm,
                         Append(st.added, file.jp_name),
                         st.cbs,
                         st.log \o LoadCandidate(file))
    ELSE SearchState(st.pm, st.added, st.cbs,
                     st.log \o LoadCandidate(file) \o DiscardCandidate(file))

\* SearchLoop that ends with the records of this call only
RECURSIVE SearchLoopClearing(_, _, _)
SearchLoopClearing(st, libList, cb) ==
    IF libList = <<>>
    THEN [st EXCEPT !.pm = [k \in Range(st.added) |-> st.pm[k]]]
    ELSE SearchLoopClearing(SearchOne(st, AllFiles[Head(libList)], cb),
                            Tail(libList), cb)

RECURSIVE SearchLoop(_, _, _)
SearchLoop(st, libList, cb) ==
    IF libList = <<>> THEN st
    ELSE SearchLoop(SearchOne(st, AllFiles[Head(libList)], cb), Tail(libList), cb)

\* the iteration order of pluginsMap after the keys of added were inserted:
\* the old keys keep their relative order, each new key becomes the first
\* or the last element, depending on the container implementation
RECURSIVE OrderAfterInsert(_, _, _)
OrderAfterInsert(order, added, front) ==
    IF added = <<>> THEN order
    ELSE OrderAfterInsert(IF front THEN <<Head(added)>> \o order
                          ELSE Append(order, Head(added)),
                          Tail(added), front)

\* the directory is pushed back without looking for it in the list
AddLocationAgain(locs, dir) == Append(locs, dir)

AddLocation(locs, dir) == IF dir \in Range(locs) THEN locs ELSE Append(locs, dir)

searchForPlugins(pluginDir, recursive, cb, listOk, libList) ==
    LET listCbs == IF ~listOk /\ cb
                   THEN << Callback(SEARCH_LISTFILES_ERROR, "errno") >> ELSE <<>>
        st == SearchLoop(SearchState(pluginsMap, <<>>, listCbs, <<>>), libList, cb)
        atLeastOneFound == st.added # <<>>
    IN
    /\ ~crashed
    /\ lastOp' = [op |-> "search", dir |-> pluginDir, callback |-> cb,
                  listOk |-> listOk, candidates |-> Len(libList)]
    /\ cbs' = st.cbs
    /\ log' = st.log
    /\ pluginsMap' = st.pm
    /\ mapOrder' = OrderAfterInsert(mapOrder, st.added, insertFront)
    /\ locations' = IF atLeastOneFound THEN AddLocation(locations, pluginDir)
                    ELSE locations
    /\ lastRet' = IF ~listOk /\ libList = <<>> THEN SEARCH_LISTFILES_ERROR
                  ELSE IF atLeastOneFound THEN SUCCESS
                  ELSE SEARCH_NOTHING_FOUND
    /\ depth' = 0
    /\ lastAnswer' = 0
    /\ UNCHANGED << loadOrderList, leaked, loadedSeq, crashed, disk, insertFront >>

Search ==
    \E pluginDir \in DirsOf(disk), cb \in BOOLEAN, listOk \in BOOLEAN :
     \E recursive \in IF SubDirs(pluginDir) = {} THEN {FALSE} ELSE BOOLEAN :
      \E libList \in IF listOk THEN { listLibrariesInDir(disk, pluginDir, recursive) }
                     ELSE PartialListings(listLibrariesInDir(disk, pluginDir, recursive)) :
        searchForPlugins(pluginDir, recursive, cb, listOk, libList)

(***************************************************************************)
(* Graph::topologicalSort(error) over the node list built by loadPlugins.  *)
(* A node is [name, parentNodes]; parentNodes holds 0-based node indices.  *)
(* The nodes are emitted parents first; among the nodes that are ready the *)
(* one with the lowest index goes first.  When no node is ready and some   *)
(* are left there is a cycle: error is set and no order is emitted.        *)
(***************************************************************************)
Node(n) == [name |-> n, parentNodes |-> <<>>]

SortResult(e, l) == [error |-> e, list |-> l]

ReadyNodes(nodeList, emitted) ==
    { i \in 0..(Len(nodeList) - 1) :
        /\ i \notin Range(emitted)
        /\ Range(nodeList[i + 1].parentNodes) \subseteq Range(emitted) }

RECURSIVE SortFrom(_, _)
SortFrom(nodeList, emitted) ==
    IF Len(emitted) = Len(nodeList)
    THEN SortResult(FALSE, [k \in 1..Len(emitted) |-> nodeList[emitted[k] + 1].name])
    ELSE
      LET ready == ReadyNodes(nodeList, emitted) IN
      IF ready = {}
      THEN SortResult(TRUE, <<>>)
      ELSE SortFrom(nodeList,
                    Append(emitted, CHOOSE i \in ready : \A j \in ready : i <= j))

topologicalSort(nodeList) == SortFrom(nodeList, <<>>)

(***************************************************************************)
(* loadPlugins(tryToContinue, callbackFunc)                                *)
(***************************************************************************)
LoadState(status, ret, pm, nodeList, c, d) ==
    [status |-> status, ret |-> ret, pm |-> pm, nodeList |-> nodeList,
     cbs |-> c, depth |-> d]

\* CheckAll that goes on after a failure also when tryToContinue is false
RECURSIVE CheckAllLenient(_, _, _, _, _)
CheckAllLenient(st, order, i, tryToContinue, cb) ==
    IF i > Len(order) THEN st
    ELSE
      LET n  == order[i]
          r  == checkDependencies([st.pm EXCEPT ![n].graphId = -1], n, {}, cb)
          c  == st.cbs \o r.cbs
          d  == Max(st.depth, r.depth)
      IN
      IF r.ret = NO_RETURN
      THEN LoadState("crash", NO_RETURN, r.pm, st.nodeList, c, d)
      ELSE IF r.pm[n].dependenciesExists = "True"
      THEN CheckAllLenient(LoadState("run", SUCCESS,
                                     [r.pm EXCEPT ![n].graphId = Len(st.nodeList)],
                                     Append(st.nodeList, Node(n)), c, d),
                           order, i + 1, tryToContinue, cb)
      ELSE CheckAllLenient(LoadState("run", SUCCESS, r.pm, st.nodeList, c, d),
                           order, i + 1, tryToContinue, cb)

\* CheckAll that gives a node to every record, whatever its flag
RECURSIVE CheckAllEveryNode(_, _, _, _, _)
CheckAllEveryNode(st, order, i, tryToContinue, cb) ==
    IF i > Len(order) THEN st
    ELSE
      LET n  == order[i]
          r  == checkDependencies([st.pm EXCEPT ![n].graphId = -1], n, {}, cb)
          c  == st.cbs \o r.cbs
          d  == Max(st.depth, r.depth)
      IN
      IF r.ret = NO_RETURN
      THEN LoadState("crash", NO_RETURN, r.pm, st.nodeList, c, d)
      ELSE IF ~tryToContinue /\ r.ret # SUCCESS
      THEN LoadState("return", r.ret, r.pm, st.nodeList, c, d)
      ELSE CheckAllEveryNode(LoadState("run", SUCCESS,
                                       [r.pm EXCEPT ![n].graphId = Len(st.nodeList)],
                                       Append(st.nodeList, Node(n)), c, d),
                             order, i + 1, tryToContinue, cb)

\* CheckAll that gives a node to every record whose flag is not false
RECURSIVE CheckAllNotFalse(_, _, _, _, _)
CheckAllNotFalse(st, order, i, tryToContinue, cb) ==
    IF i > Len(order) THEN st
    ELSE
      LET n  == order[i]
          r  == checkDependencies([st.pm EXCEPT ![n].graphId = -1], n, {}, cb)
          c  == st.cbs \o r.cbs
          d  == Max(st.depth, r.depth)
      IN
      IF r.ret = NO_RETURN
      THEN LoadState("crash", NO_RETURN, r.pm, st.nodeList, c, d)
      ELSE IF ~tryToContinue /\ r.ret # SUCCESS
      THEN LoadState("return", r.ret, r.pm, st.nodeList, c, d)
      ELSE IF r.pm[n].dependenciesExists # "False"
      THEN CheckAllNotFalse(LoadState("run", SUCCESS,
                                      [r.pm EXCEPT ![n].graphId = Len(st.nodeList)],
                                      Append(st.nodeList, Node(n)), c, d),
                            order, i + 1, tryToContinue, cb)
      ELSE CheckAllNotFalse(LoadState("run", SUCCESS, r.pm, st.nodeList, c, d),
                            order, i + 1, tryToContinue, cb)

\* first step: reset graphId, check the dependencies of every record in
\* iteration order, give a node to every record whose flag is true
RECURSIVE CheckAll(_, _, _, _, _)
CheckAll(st, order, i, tryToContinue, cb) ==
    IF i > Len(order) THEN st
    ELSE
      LET n  == order[i]
          r  == checkDependencies([st.pm EXCEPT ![n].graphId = -1], n, {}, cb)
          c  == st.cbs \o r.cbs
          d  == Max(st.depth, r.depth)
      IN
      IF r.ret = NO_RETURN
      THEN LoadState("crash", NO_RETURN, r.pm, st.nodeList, c, d)
      ELSE IF ~tryToContinue /\ r.ret # SUCCESS
      THEN LoadState("return", r.ret, r.pm, st.nodeList, c, d)
      ELSE IF r.pm[n].dependenciesExists = "True"
      THEN CheckAll(LoadState("run", SUCCESS,
                              [r.pm EXCEPT ![n].graphId = Len(st.nodeList)],
                              Append(st.nodeList, Node(n)), c, d),
                    order, i + 1, tryToContinue, cb)
      ELSE CheckAll(LoadState("run", SUCCESS, r.pm, st.nodeList, c, d),
                    order, i + 1, tryToContinue, cb)

\* ParentNodes that records no dependency
ParentNodesNone(pm, n) == <<>>

\* the parentNodes of the node of record n: the graphId of each dependency
ParentNodes(pm, n) ==
    [k \in 1..Len(pm[n].info.dependencies) |->
        pm[pm[n].info.dependencies[k].name].graphId]

\* pluginsMap[name] on a missing name stores a null PluginPtr, and the
\* graph cannot index a node with -1
ParentsValid(pm, n) ==
    \A k \in 1..Len(pm[n].info.dependencies) :
        /\ pm[n].info.dependencies[k].name \in DOMAIN pm
        /\ pm[pm[n].info.dependencies[k].name].graphId # -1

FillParents(pm, nodeList) ==
    [k \in 1..Len(nodeList) |->
        [nodeList[k] EXCEPT !.parentNodes = ParentNodes(pm, nodeList[k].name)]]

NodesValid(pm, nodeList) ==
    \A k \in 1..Len(nodeList) : ParentsValid(pm, nodeList[k].name)

\* LoadWalk that passes over the first name of the load order
LoadWalkFromSecond(list) == IF list = <<>> THEN list ELSE Tail(list)

\* fourth step: instantiate, along the load order, every record without an
\* instance
LoadWalk(list) == list

InstState(pm, l, seq) == [pm |-> pm, log |-> l, loadedSeq |-> seq]

\* Instantiate without the test for an existing instance
RECURSIVE InstantiateAlways(_, _)
InstantiateAlways(st, list) ==
    IF list = <<>> THEN st
    ELSE
      LET n == Head(list) IN
      InstantiateAlways(InstState([st.pm EXCEPT ![n].iplugin = TRUE],
                                  st.log \o << Event("create", n), Event("loaded", n) >>,
                                  Append(Without(st.loadedSeq, n), n)),
                        Tail(list))

RECURSIVE Instantiate(_, _)
Instantiate(st, list) ==
    IF list = <<>> THEN st
    ELSE
      LET n == Head(list) IN
      IF ~st.pm[n].iplugin
      THEN Instantiate(InstState([st.pm EXCEPT ![n].iplugin = TRUE],
                                 st.log \o << Event("create", n), Event("loaded", n) >>,
                                 Append(st.loadedSeq, n)),
                       Tail(list))
      ELSE Instantiate(st, Tail(list))

\* the last search, load or unload call was a loadPlugins call that
\* returned SUCCESS
SettledLoad ==
    \/ lastOp.op = "load" /\ lastRet = SUCCESS
    \/ lastOp.op = "request" /\ lastOp.afterLoad

loadPlugins(tryToContinue, cb) ==
    LET first  == CheckAll(LoadState("run", SUCCESS, pluginsMap, <<>>, <<>>, 0),
                           mapOrder, 1, tryToContinue, cb)
        valid  == NodesValid(first.pm, first.nodeList)
        sorted == topologicalSort(FillParents(first.pm, first.nodeList))
        inst   == Instantiate(InstState(first.pm, <<>>, loadedSeq), LoadWalk(sorted.list))
    IN
    /\ ~crashed
    /\ lastOp' = [op |-> "load", tryToContinue |-> tryToContinue, callback |-> cb,
                  reload |-> SettledLoad]
    /\ depth' = first.depth
    /\ lastAnswer' = 0
    /\ UNCHANGED << mapOrder, locations, leaked, disk, insertFront >>
    /\ IF first.status = "crash"
       THEN /\ crashed' = TRUE
            /\ lastRet' = NO_RETURN
            /\ pluginsMap' = first.pm
            /\ cbs' = first.cbs
            /\ log' = <<>>
            /\ UNCHANGED << loadOrderList, loadedSeq >>
       ELSE IF first.status = "return"
       THEN /\ lastRet' = first.ret
            /\ pluginsMap' = first.pm
            /\ cbs' = first.cbs
            /\ log' = <<>>
            /\ UNCHANGED << loadOrderList, loadedSeq, crashed >>
       ELSE IF ~valid
       THEN /\ crashed' = TRUE
            /\ lastRet' = NO_RETURN
            /\ pluginsMap' = first.pm
            /\ cbs' = first.cbs
            /\ log' = <<>>
            /\ UNCHANGED << loadOrderList, loadedSeq >>
       ELSE IF sorted.error
       THEN /\ lastRet' = LOAD_DEPENDENCY_CYCLE
            /\ pluginsMap' = first.pm
            /\ loadOrderList' = sorted.list
            /\ cbs' = first.cbs \o (IF cb THEN << Callback(LOAD_DEPENDENCY_CYCLE, "") >>
                                    ELSE <<>>)
            /\ log' = <<>>
            /\ UNCHANGED << loadedSeq, crashed >>
       ELSE /\ lastRet' = SUCCESS
            /\ pluginsMap' = inst.pm
            /\ loadOrderList' = sorted.list
            /\ loadedSeq' = inst.loadedSeq
            /\ cbs' = first.cbs
            /\ log' = inst.log
            /\ UNCHANGED crashed

Load == \E tryToContinue \in BOOLEAN, cb \in BOOLEAN : loadPlugins(tryToContinue, cb)

(***************************************************************************)
(* unloadPlugins(callbackFunc).  failFirst holds the records whose         *)
(* lib.unload() leaves the library loaded, failAgain those whose library   *)
(* also survives the second unload() made by ~Plugin().                    *)
(***************************************************************************)
StickyPaths == { AllFiles[i].path : i \in { j \in 1..Len(AllFiles) : AllFiles[j].sticky } }

TotalLeaked(lk) ==
    LET RECURSIVE Sum(_)
        Sum(S) == IF S = {} THEN 0
                  ELSE LET p == CHOOSE q \in S : TRUE IN lk[p] + Sum(S \ {p})
    IN Sum(DOMAIN lk)

UnloadState(status, pm, order, l, all, lk) ==
    [status |-> status, pm |-> pm, order |-> order, log |-> l,
     allUnloaded |-> all, leaked |-> lk]

\* unloadPlugin that unloads the library before it turns to the instance
unloadPluginLibraryFirst(plugin, n, failFirst) ==
    [log |-> << Event(IF n \in failFirst THEN "unloadFailed" ELSE "unload", n) >>
             \o (IF plugin.iplugin
                 THEN << Event("aboutToBeUnloaded", n), Event("drop", n) >>
                 ELSE <<>>),
     unloaded |-> n \notin failFirst]

\* unloadPlugin(plugin): notify and drop the instance, unload the library,
\* report whether the library is no longer loaded
unloadPlugin(plugin, n, failFirst) ==
    [log |-> (IF plugin.iplugin
              THEN << Event("aboutToBeUnloaded", n), Event("drop", n) >>
              ELSE <<>>)
             \o << Event(IF n \in failFirst THEN "unloadFailed" ELSE "unload", n) >>,
     unloaded |-> n \notin failFirst]

\* ~Plugin() run by pluginsMap.erase(): a library that is still loaded is
\* unloaded once more
DestroyPlugin(n, failFirst, failAgain) ==
    IF n \in failFirst
    THEN << Event(IF n \in failAgain THEN "unloadFailed" ELSE "unload", n) >>
    ELSE <<>>

\* UnloadAndErase that keeps the outcome of the last unloadPlugin call only
UnloadAndEraseLast(st, n, failFirst, failAgain) ==
    LET r == unloadPlugin(st.pm[n], n, failFirst) IN
    UnloadState("run", Erase(st.pm, n), Without(st.order, n),
                st.log \o r.log \o DestroyPlugin(n, failFirst, failAgain)
                       \o << Event("erase", n) >>,
                r.unloaded,
                IF n \in failAgain
                THEN [st.leaked EXCEPT ![st.pm[n].path] = @ + 1]
                ELSE st.leaked)

\* unloadPlugin on record n followed by pluginsMap.erase(n)
UnloadAndErase(st, n, failFirst, failAgain) ==
    LET r == unloadPlugin(st.pm[n], n, failFirst) IN
    UnloadState("run", Erase(st.pm, n), Without(st.order, n),
                st.log \o r.log \o DestroyPlugin(n, failFirst, failAgain)
                       \o << Event("erase", n) >>,
                st.allUnloaded /\ r.unloaded,
                IF n \in failAgain
                THEN [st.leaked EXCEPT ![st.pm[n].path] = @ + 1]
                ELSE st.leaked)

\* UnloadWalk in load order
UnloadWalkForward(list) == list

\* the names visited by the first loop
UnloadWalk(list) == Reverse(list)

\* first loop: the load order in reverse.  pluginsMap[name] on a name that
\* is not a key stores a null PluginPtr, which unloadPlugin dereferences.
RECURSIVE UnloadListed(_, _, _, _)
UnloadListed(st, names, failFirst, failAgain) ==
    IF names = <<>> THEN st
    ELSE IF Head(names) \notin DOMAIN st.pm
    THEN UnloadState("crash", st.pm, st.order,
                     Append(st.log, Event("nullDeref", Head(names))),
                     st.allUnloaded, st.leaked)
    ELSE UnloadListed(UnloadAndErase(st, Head(names), failFirst, failAgain),
                      Tail(names), failFirst, failAgain)

\* UnloadRemaining that leaves the remaining records alone
UnloadRemainingNone(st, failFirst, failAgain) == st

\* second loop: the remaining records, from pluginsMap.begin()
RECURSIVE UnloadRemaining(_, _, _)
UnloadRemaining(st, failFirst, failAgain) ==
    IF st.status = "crash" \/ st.order = <<>> THEN st
    ELSE UnloadRemaining(UnloadAndErase(st, Head(st.order), failFirst, failAgain),
                         failFirst, failAgain)

unloadPlugins(cb, failFirst, failAgain) ==
    LET listed == UnloadListed(UnloadState("run", pluginsMap, mapOrder, <<>>, TRUE, leaked),
                               UnloadWalk(loadOrderList), failFirst, failAgain)
        st     == UnloadRemaining(listed, failFirst, failAgain)
    IN
    /\ ~crashed
    /\ lastOp' = [op |-> "unload", callback |-> cb]
    /\ pluginsMap' = st.pm
    /\ mapOrder' = st.order
    /\ leaked' = st.leaked
    /\ log' = st.log
    /\ depth' = 0
    /\ lastAnswer' = 0
    /\ loadedSeq' = SelectNames(loadedSeq, { n \in DOMAIN st.pm : st.pm[n].iplugin })
    /\ UNCHANGED << loadOrderList, disk, insertFront >>
    /\ IF st.status = "crash"
       THEN /\ crashed' = TRUE
            /\ lastRet' = NO_RETURN
            /\ cbs' = <<>>
            /\ UNCHANGED locations
       ELSE /\ locations' = <<>>
            /\ lastRet' = IF st.allUnloaded THEN SUCCESS ELSE UNLOAD_NOT_ALL
            /\ cbs' = IF ~st.allUnloaded /\ cb
                      THEN << Callback(UNLOAD_NOT_ALL, "") >> ELSE <<>>
            /\ UNCHANGED crashed

Unload ==
    \E cb \in BOOLEAN :
      \E failFirst \in SUBSET { n \in DOMAIN pluginsMap : pluginsMap[n].path \in StickyPaths } :
        \E failAgain \in SUBSET failFirst :
          /\ TotalLeaked(leaked) + Cardinality(failAgain) <= MaxLeaked
          /\ unloadPlugins(cb, failFirst, failAgain)

(***************************************************************************)
(* PlugMgrPrivate::handleRequest(sender, receiver, code, data, dataSize).  *)
(* answer is what the handleRequest of the receiving instance returns.     *)
(***************************************************************************)
\* the null receiver: the manager itself is addressed
NullReceiver == "nullptr"

\* the request is passed on to whatever record bears the receiver's name
ForwardedToAnyRecord(pm, receiver) ==
    /\ receiver # NullReceiver
    /\ receiver \in DOMAIN pm

\* the request is passed on to the instance of the receiver
Forwarded(pm, receiver) ==
    /\ receiver # NullReceiver
    /\ receiver \in DOMAIN pm
    /\ pm[receiver].libLoaded
    /\ pm[receiver].iplugin

handleRequest(sender, receiver, code, answer) ==
    /\ ~crashed
    /\ lastOp' = [op |-> "request", sender |-> sender, receiver |-> receiver,
                  code |-> code, afterLoad |-> SettledLoad]
    /\ lastRet' = NO_CODE
    /\ lastAnswer' = IF Forwarded(pluginsMap, receiver) THEN answer ELSE 0
    /\ log' = IF Forwarded(pluginsMap, receiver)
              THEN << [ev |-> "handleRequest", name |-> receiver,
                       sender |-> sender, code |-> code, answer |-> answer] >>
              ELSE <<>>
    /\ cbs' = <<>>
    /\ depth' = 0
    /\ UNCHANGED << pluginsMap, mapOrder, loadOrderList, locations, leaked,
                    loadedSeq, crashed, disk, insertFront >>

Request ==
    \E receiver \in DOMAIN pluginsMap \cup { NullReceiver, "nonexistent" } :
      \E answer \in { 0, 7 } :
        handleRequest("sender", receiver, 7, answer)

(***************************************************************************)
(* Getters: hasPlugin(name), isPluginLoaded(name), pluginInfo(name).  They *)
(* read the registry and change nothing.                                   *)
(***************************************************************************)
hasPlugin(pm, name) == name \in DOMAIN pm

isPluginLoaded(pm, name) ==
    hasPlugin(pm, name) /\ pm[name].libLoaded /\ pm[name].iplugin

pluginInfo(pm, name) ==
    IF ~hasPlugin(pm, name) THEN NoPluginInfo
    ELSE toPluginInfo(pm[name].info)

(***************************************************************************)
(* PluginManager(): nothing discovered, nothing loaded.                    *)
(***************************************************************************)
Init ==
    /\ pluginsMap = << >>
    /\ mapOrder = << >>
    /\ loadOrderList = << >>
    /\ locations = << >>
    /\ leaked = [p \in Paths |-> 0]
    /\ loadedSeq = << >>
    /\ lastOp = [op |-> "none"]
    /\ lastRet = SUCCESS
    /\ log = << >>
    /\ cbs = << >>
    /\ depth = 0
    /\ lastAnswer = 0
    /\ crashed = FALSE
    /\ disk \in Disks
    /\ insertFront \in BOOLEAN

Next == Search \/ Load \/ Unload \/ Request

Spec == Init /\ [][Next]_vars

(***************************************************************************)
(* Vocabulary of the properties.                                           *)
(***************************************************************************)
DependencyCodes == { LOAD_DEPENDENCY_BAD_VERSION, LOAD_DEPENDENCY_NOT_FOUND }

\* the records that have an instance
Live(pm) == { n \in DOMAIN pm : pm[n].iplugin }

\* the names a record declares as dependencies
Declared(pm, n) ==
    { pm[n].info.dependencies[k].name : k \in 1..Len(pm[n].info.dependencies) }

\* the declared dependencies that are records of the registry at a
\* compatible version
Satisfied(pm, n) ==
    { pm[n].info.dependencies[k].name :
        k \in { j \in 1..Len(pm[n].info.dependencies) :
                  /\ pm[n].info.dependencies[j].name \in DOMAIN pm
                  /\ compatible(pm[pm[n].info.dependencies[j].name].info.version,
                                pm[n].info.dependencies[j].version) } }

\* the records reached from n along satisfied dependencies, in one or more
\* steps
RECURSIVE ReachedFrom(_, _, _)
ReachedFrom(pm, frontier, seen) ==
    LET next == UNION { Satisfied(pm, m) : m \in frontier } IN
    IF next \subseteq seen THEN seen
    ELSE ReachedFrom(pm, next \ seen, seen \cup next)

Transitive(pm, n) == ReachedFrom(pm, {n}, {})

\* a dependency cycle among records whose declared dependencies all exist
\* at compatible versions
OnCycle(pm, n) ==
    /\ n \in Transitive(pm, n)
    /\ \A m \in Transitive(pm, n) : Declared(pm, m) = Satisfied(pm, m)

HasCycle(pm) == \E n \in DOMAIN pm : OnCycle(pm, n)

\* every declared dependency of n exists, transitively, at a compatible
\* version, and n is on no cycle
Resolvable(pm, n) ==
    /\ \A m \in Transitive(pm, n) \cup {n} : Declared(pm, m) = Satisfied(pm, m)
    /\ \A m \in Transitive(pm, n) \cup {n} : m \notin Transitive(pm, m)

\* the names of the events e of a log, in order
IsEvent(e, x) == x.ev = e

EventNames(l, e) ==
    LET sel == SelectSeq(l, LAMBDA x : IsEvent(e, x)) IN
    [k \in 1..Len(sel) |-> sel[k].name]

\* the positions in a log of the events e of record n
EventPositions(l, e, n) == { i \in 1..Len(l) : l[i].ev = e /\ l[i].name = n }

\* s lists b before a
Before(s, b, a) == IndexOf(s, b) > 0 /\ IndexOf(s, a) > 0 /\ IndexOf(s, b) < IndexOf(s, a)

(***************************************************************************)
(* C1: after a loadPlugins call that returned SUCCESS, every dependency B  *)
(* declared by a record A of the load-order list stands before A in that   *)
(* list, and the loaded() notification of B was delivered before that of A.*)
(***************************************************************************)
C1_LoadOrderRespectsDependencies ==
    (lastOp.op = "load" /\ lastRet = SUCCESS) =>
        \A a \in Range(loadOrderList) : \A b \in Declared(pluginsMap, a) :
            /\ Before(loadOrderList, b, a)
            /\ Before(loadedSeq, b, a)

\* B, which depends on C, was loaded in a later call than C
C1_Witness ==
    /\ lastOp.op = "load" /\ lastRet = SUCCESS
    /\ loadOrderList = << "C", "B" >>
    /\ loadedSeq = << "C", "B" >>
    /\ EventNames(log, "loaded") = << "B" >>

(***************************************************************************)
(* C2: in every unloadPlugins call the aboutToBeUnloaded() notifications   *)
(* go to the live records in the reverse of the load-order list, which     *)
(* holds exactly the live records whenever one is live, and a live record  *)
(* is notified before the instance of any of its dependencies is dropped   *)
(* and before the library of that dependency is unloaded.                  *)
(***************************************************************************)
NotifiedBeforeDependencies(pm, l) ==
    \A a \in Live(pm) : \A b \in Declared(pm, a) :
        \A i \in EventPositions(l, "aboutToBeUnloaded", a) :
            \A j \in EventPositions(l, "drop", b)
                     \cup EventPositions(l, "unload", b)
                     \cup EventPositions(l, "unloadFailed", b) : i < j

C2_ReverseUnload ==
    [][ lastOp'.op = "unload" =>
          /\ EventNames(log', "aboutToBeUnloaded")
               = Reverse(SelectNames(loadOrderList, Live(pluginsMap)))
          /\ Live(pluginsMap) # {} => Range(loadOrderList) = Live(pluginsMap)
          /\ \A a \in Live(pluginsMap) :
                EventPositions(log', "aboutToBeUnloaded", a) # {}
          /\ NotifiedBeforeDependencies(pluginsMap, log') ]_vars

\* the chain A -> B -> C was torn down
C2_Witness ==
    /\ lastOp.op = "unload"
    /\ loadOrderList = << "C", "B", "A" >>
    /\ EventNames(log, "aboutToBeUnloaded") = << "A", "B", "C" >>
    /\ EventNames(log, "drop") = << "A", "B", "C" >>

(***************************************************************************)
(* C3: when the registry holds a dependency cycle among records whose      *)
(* declared dependencies all exist at compatible versions, loadPlugins     *)
(* returns LOAD_DEPENDENCY_CYCLE and creates no instance.                  *)
(***************************************************************************)
C3_CycleReported ==
    (lastOp.op = "load" /\ lastOp.tryToContinue /\ HasCycle(pluginsMap)) =>
        /\ lastRet = LOAD_DEPENDENCY_CYCLE
        /\ EventNames(log, "create") = <<>>

(***************************************************************************)
(* C4: the recursion of checkDependencies is never deeper than the number  *)
(* of records, and loadPlugins returns a code.                             *)
(***************************************************************************)
C4_CheckTerminates ==
    lastOp.op = "load" =>
        /\ depth <= Cardinality(DOMAIN pluginsMap)
        /\ lastRet \in ReturnCodes

(***************************************************************************)
(* C5, as stated: after unloadPlugins returned, with SUCCESS or with       *)
(* UNLOAD_NOT_ALL, the registry and the locations list are empty and no    *)
(* library of a record is still loaded.                                    *)
(***************************************************************************)
\* the records whose library was still loaded after the last attempt to
\* unload it
LeftLoaded(l) ==
    { n \in { l[i].name : i \in 1..Len(l) } :
        /\ EventPositions(l, "unloadFailed", n) # {}
        /\ \A i \in EventPositions(l, "unloadFailed", n) :
             \A j \in EventPositions(l, "unload", n) : j < i }

C5_AllReleasedAnyOutcome ==
    (lastOp.op = "unload" /\ lastRet \in { SUCCESS, UNLOAD_NOT_ALL }) =>
        /\ pluginsMap = << >>
        /\ locations = << >>
        /\ LeftLoaded(log) = {}

(***************************************************************************)
(* C5, amended: after unloadPlugins returned, with SUCCESS or with         *)
(* UNLOAD_NOT_ALL, the registry and the locations list are empty; when it  *)
(* returned SUCCESS no library of a record is still loaded.                *)
(***************************************************************************)
C5_AllReleasedOnSuccess ==
    (lastOp.op = "unload" /\ lastRet \in { SUCCESS, UNLOAD_NOT_ALL }) =>
        /\ pluginsMap = << >>
        /\ mapOrder = << >>
        /\ locations = << >>
        /\ lastRet = SUCCESS => LeftLoaded(log) = {}

\* an unload that reported UNLOAD_NOT_ALL after it went through a loaded
\* chain and left one library loaded
C5_Witness ==
    /\ lastOp.op = "unload" /\ lastRet = UNLOAD_NOT_ALL
    /\ pluginsMap = << >> /\ locations = << >>
    /\ LeftLoaded(log) = { "C" }
    /\ EventNames(log, "erase") = << "A", "B", "C", "V" >>

(***************************************************************************)
(* C6: a loadPlugins call that follows a loadPlugins call which returned   *)
(* SUCCESS, with no search and no unload between the two, leaves the       *)
(* load-order list as it is, creates no instance and delivers no loaded()  *)
(* notification.                                                           *)
(***************************************************************************)
C6_IdempotentReload ==
    [][ (SettledLoad /\ lastOp'.op = "load") =>
          /\ loadOrderList' = loadOrderList
          /\ EventNames(log', "create") = <<>>
          /\ EventNames(log', "loaded") = <<>>
          /\ Live(pluginsMap') = Live(pluginsMap)
          /\ loadedSeq' = loadedSeq ]_vars

\* a second successful pass over the loaded chain
C6_Witness ==
    /\ lastOp.op = "load" /\ lastOp.reload /\ lastRet = SUCCESS
    /\ loadOrderList = << "C", "B", "A" >>
    /\ Live(pluginsMap) = { "A", "B", "C" }
    /\ log = <<>>

C8_MemoisedFailureCode ==
    (lastOp.op = "load" /\ ~lastOp.tryToContinue) =>
        /\ lastRet = LOAD_DEPENDENCY_NOT_FOUND =>
             \E n \in DOMAIN pluginsMap : ~(Declared(pluginsMap, n) \subseteq DOMAIN pluginsMap)
        /\ lastRet = LOAD_DEPENDENCY_BAD_VERSION =>
             \E n \in DOMAIN pluginsMap :
                 (Declared(pluginsMap, n) \cap DOMAIN pluginsMap) # Satisfied(pluginsMap, n)

(***************************************************************************)
(* C9: when loadPlugins is called with tryToContinue = false and the check *)
(* of some record returns a dependency code before any check fails to      *)
(* return, the call returns a dependency code, creates no instance,        *)
(* delivers no notification and leaves the load-order list and the live    *)
(* instances as they were.                                                 *)
(***************************************************************************)
CheckReturns(pm, n) == checkDependencies(pm, n, {}, FALSE).ret

StrictFailure(pm, order) ==
    \E i \in 1..Len(order) :
        /\ CheckReturns(pm, order[i]) \in DependencyCodes
        /\ \A j \in 1..(i - 1) : CheckReturns(pm, order[j]) # NO_RETURN

C9_StrictFailureChangesNothing ==
    [][ (lastOp'.op = "load" /\ ~lastOp'.tryToContinue
           /\ StrictFailure(pluginsMap, mapOrder)) =>
          /\ lastRet' \in DependencyCodes
          /\ log' = <<>>
          /\ loadOrderList' = loadOrderList
          /\ Live(pluginsMap') = Live(pluginsMap)
          /\ loadedSeq' = loadedSeq ]_vars

\* a strict pass that failed while an instance was live and a record that
\* could be loaded had none
C9_Witness ==
    /\ lastOp.op = "load" /\ ~lastOp.tryToContinue
    /\ lastRet \in DependencyCodes
    /\ Live(pluginsMap) = { "C" }
    /\ "B" \in DOMAIN pluginsMap /\ ~pluginsMap["B"].iplugin
    /\ Resolvable(pluginsMap, "B")

(***************************************************************************)
(* C10: loadPlugins(tryToContinue = true) on a registry without dependency *)
(* cycles returns SUCCESS; afterwards every record whose flag is true has  *)
(* an instance and is in the load-order list, and no record whose check    *)
(* failed, or that has an unsatisfied dependency directly or transitively, *)
(* has an instance or is in the load-order list.                           *)
(***************************************************************************)
Acyclic(pm) == \A n \in DOMAIN pm : n \notin Transitive(pm, n)

C10_ContinuePastFailures ==
    (lastOp.op = "load" /\ lastOp.tryToContinue /\ Acyclic(pluginsMap)) =>
        /\ lastRet = SUCCESS
        /\ \A n \in DOMAIN pluginsMap :
             /\ pluginsMap[n].dependenciesExists = "True" =>
                  (pluginsMap[n].iplugin /\ n \in Range(loadOrderList))
             /\ (pluginsMap[n].dependenciesExists # "True"
                   \/ ~Resolvable(pluginsMap, n)) =>
                  (~pluginsMap[n].iplugin /\ n \notin Range(loadOrderList))

\* a pass that loaded the chain next to a record that failed directly and
\* a record that failed through a dependency
C10_Witness ==
    /\ lastOp.op = "load" /\ lastOp.tryToContinue /\ lastRet = SUCCESS
    /\ \E n \in DOMAIN pluginsMap : pluginsMap[n].dependenciesExists = "False"
    /\ \E n \in DOMAIN pluginsMap : pluginsMap[n].dependenciesExists = "Indeterminate"
    /\ Live(pluginsMap) = { "B", "C" }

(***************************************************************************)
(* C11: after a loadPlugins(tryToContinue = true) pass with a callback,    *)
(* every record with a declared dependency that is absent, or present at   *)
(* an incompatible version, has caused exactly one callback, with the      *)
(* matching code and the record's path; a record whose check succeeded has *)
(* caused none.                                                            *)
(***************************************************************************)
\* what one declared dependency amounts to in the registry
DependencyCode(pm, d) ==
    IF d.name \notin DOMAIN pm THEN LOAD_DEPENDENCY_NOT_FOUND
    ELSE IF ~compatible(pm[d.name].info.version, d.version)
         THEN LOAD_DEPENDENCY_BAD_VERSION
         ELSE SUCCESS

\* the codes of the declared dependencies of n that are absent or
\* incompatible
MatchingCodes(pm, n) ==
    { DependencyCode(pm, pm[n].info.dependencies[k]) :
        k \in 1..Len(pm[n].info.dependencies) } \ { SUCCESS }

\* the callbacks of a call that carry the path of record n
CallbacksOf(pm, n) == SelectSeq(cbs, LAMBDA c : c.detail = pm[n].path)

C11_OneCallbackPerFailingRecord ==
    (lastOp.op = "load" /\ lastOp.tryToContinue /\ lastOp.callback
       /\ lastRet \in ReturnCodes) =>
      \A n \in DOMAIN pluginsMap :
          IF MatchingCodes(pluginsMap, n) # {}
          THEN /\ Len(CallbacksOf(pluginsMap, n)) = 1
               /\ CallbacksOf(pluginsMap, n)[1].code \in MatchingCodes(pluginsMap, n)
          ELSE pluginsMap[n].dependenciesExists = "True" =>
                   CallbacksOf(pluginsMap, n) = <<>>

(***************************************************************************)
(* C12: the registry holds one record per name.  A candidate found by      *)
(* searchForPlugins whose jp_name is already a key of the registry is      *)
(* reported with SEARCH_NAME_ALREADY_EXISTS and its own path (when a       *)
(* callback is given) and is discarded; the record stored under that name  *)
(* keeps its path, library, metadata, instance and flag.                   *)
(***************************************************************************)
\* the files a search call opened, by their library events
Opened(l) ==
    { f \in DOMAIN AllFiles : EventPositions(l, "libLoad", AllFiles[f].path) # {} }

\* the opened files that export the three symbols under a name the registry
\* pm already holds
Duplicates(pm, l) ==
    { f \in Opened(l) : AllFiles[f].symbols /\ AllFiles[f].jp_name \in DOMAIN pm }

\* every key once in the iteration order
OneRecordPerName(pm, order) ==
    /\ Range(order) = DOMAIN pm
    /\ \A i, j \in 1..Len(order) : order[i] = order[j] => i = j

C12_DuplicateNameRejected ==
    [][ lastOp'.op = "search" =>
          /\ OneRecordPerName(pluginsMap', mapOrder')
          /\ \A f \in Duplicates(pluginsMap, log') :
               /\ lastOp'.callback =>
                    Len(SelectSeq(cbs', LAMBDA c :
                          c = Callback(SEARCH_NAME_ALREADY_EXISTS, AllFiles[f].path))) = 1
               /\ EventPositions(log', "libUnload", AllFiles[f].path) # {}
               /\ pluginsMap'[AllFiles[f].jp_name] = pluginsMap[AllFiles[f].jp_name] ]_vars

\* a search met a second library named A while the record A was live
C12_Witness ==
    /\ lastOp.op = "search"
    /\ lastOp.dir = "d3"
    /\ Callback(SEARCH_NAME_ALREADY_EXISTS, "d3/a2") \in Range(cbs)
    /\ "A" \in DOMAIN pluginsMap
    /\ pluginsMap["A"].path = "d1/a"
    /\ pluginsMap["A"].iplugin

(***************************************************************************)
(* C13: handleRequest passes the request on to the instance of the         *)
(* receiver, and returns what that instance's handler returned, exactly    *)
(* when the receiver is given and names a record of the registry whose     *)
(* library is loaded and that has an instance; in every other case it      *)
(* returns 0 and no handler is invoked.  It never changes the registry,    *)
(* the load-order list or the locations list.                              *)
(***************************************************************************)
\* the handler invocations of a call
HandlerCalls(l) == SelectSeq(l, LAMBDA x : IsEvent("handleRequest", x))

C13_RequestRouting ==
    [][ lastOp'.op = "request" =>
          /\ IF /\ lastOp'.receiver \in Live(pluginsMap)
                /\ pluginsMap[lastOp'.receiver].libLoaded
             THEN /\ Len(HandlerCalls(log')) = 1
                  /\ HandlerCalls(log')[1].name = lastOp'.receiver
                  /\ HandlerCalls(log')[1].sender = lastOp'.sender
                  /\ HandlerCalls(log')[1].code = lastOp'.code
                  /\ lastAnswer' = HandlerCalls(log')[1].answer
             ELSE /\ HandlerCalls(log') = <<>>
                  /\ lastAnswer' = 0
          /\ pluginsMap' = pluginsMap
          /\ loadOrderList' = loadOrderList
          /\ locations' = locations ]_vars

\* a live record answered a request with a non-zero value while another
\* record of the registry had no instance
C13_Witness ==
    /\ lastOp.op = "request"
    /\ lastOp.receiver \in Live(pluginsMap)
    /\ lastAnswer = 7
    /\ Live(pluginsMap) # DOMAIN pluginsMap

(***************************************************************************)
(* C14: searchForPlugins returns SEARCH_LISTFILES_ERROR exactly when the   *)
(* listing reported an error and produced no candidate; otherwise it       *)
(* returns SUCCESS when at least one record was added and                  *)
(* SEARCH_NOTHING_FOUND when none was.  The directory is appended to the   *)
(* locations list only when SUCCESS is returned, and the locations list    *)
(* never holds a directory twice.                                          *)
(***************************************************************************)
NoDuplicates(s) == \A i, j \in 1..Len(s) : s[i] = s[j] => i = j

C14_SearchReturnCode ==
    [][ lastOp'.op = "search" =>
          /\ lastRet' = SEARCH_LISTFILES_ERROR <=>
                 (~lastOp'.listOk /\ lastOp'.candidates = 0)
          /\ lastRet' # SEARCH_LISTFILES_ERROR =>
                 /\ lastRet' = SUCCESS <=> DOMAIN pluginsMap' # DOMAIN pluginsMap
                 /\ lastRet' = SEARCH_NOTHING_FOUND <=>
                        DOMAIN pluginsMap' = DOMAIN pluginsMap
          /\ locations' # locations =>
                 /\ lastRet' = SUCCESS
                 /\ locations' = Append(locations, lastOp'.dir)
          /\ lastRet' = SUCCESS => lastOp'.dir \in Range(locations')
          /\ NoDuplicates(locations') ]_vars

\* a second, recursive search of d1 added records when d1 was a location
\* already
C14_Witness ==
    /\ lastOp.op = "search"
    /\ lastOp.dir = "d1"
    /\ lastOp.candidates = 4
    /\ lastRet = SUCCESS
    /\ locations = << "d1" >>
    /\ EventPositions(log, "libUnload", "d1/a") # {}
    /\ "B" \in DOMAIN pluginsMap

(***************************************************************************)
(* C15: an unloadPlugins call that returns has run unloadPlugin on every   *)
(* record and erased every record, also when the library of some record    *)
(* was still loaded after its unload; it returns UNLOAD_NOT_ALL, and calls *)
(* the callback once with that code, exactly when the library of at least  *)
(* one record was still loaded after unloadPlugin tried to unload it, and  *)
(* SUCCESS otherwise.                                                      *)
(***************************************************************************)
\* the positions of the attempts to unload the library of record n
UnloadAttempts(l, n) ==
    EventPositions(l, "unload", n) \cup EventPositions(l, "unloadFailed", n)

\* the records whose library was still loaded after unloadPlugin
FailedFirst(l) ==
    { n \in { l[i].name : i \in 1..Len(l) } :
        \E i \in EventPositions(l, "unloadFailed", n) :
            \A j \in UnloadAttempts(l, n) : i <= j }

C15_UnloadProcessesEveryRecord ==
    [][ (lastOp'.op = "unload" /\ lastRet' \in { SUCCESS, UNLOAD_NOT_ALL }) =>
          /\ \A n \in DOMAIN pluginsMap :
               /\ UnloadAttempts(log', n) # {}
               /\ EventPositions(log', "erase", n) # {}
               /\ n \in Live(pluginsMap) =>
                      EventPositions(log', "aboutToBeUnloaded", n) # {}
          /\ lastRet' = UNLOAD_NOT_ALL <=> FailedFirst(log') # {}
          /\ cbs' = IF lastOp'.callback /\ FailedFirst(log') # {}
                    THEN << Callback(UNLOAD_NOT_ALL, "") >>
                    ELSE <<>> ]_vars

\* the library of C was still loaded after unloadPlugin and went away with
\* the record; records after C were processed all the same
C15_Witness ==
    /\ lastOp.op = "unload"
    /\ lastRet = UNLOAD_NOT_ALL
    /\ cbs = << Callback(UNLOAD_NOT_ALL, "") >>
    /\ FailedFirst(log) = { "C" }
    /\ LeftLoaded(log) = {}
    /\ \E n \in { "A", "B", "V" } :
          \A i \in EventPositions(log, "erase", "C") :
             \E j \in UnloadAttempts(log, n) : i < j

(***************************************************************************)
(* C16: every record that has an instance when unloadPlugins takes it up   *)
(* gets aboutToBeUnloaded() once, then has its instance dropped, and only  *)
(* then has its library unloaded, by unloadPlugin and by the destructor of *)
(* the record alike; a record without an instance gets no notification.    *)
(***************************************************************************)
\* the records a call took up
TakenUp(l) == { l[i].name : i \in 1..Len(l) }

C16_NotifyDropRelease ==
    [][ lastOp'.op = "unload" =>
          \A n \in DOMAIN pluginsMap \cap TakenUp(log') :
             IF n \in Live(pluginsMap)
             THEN /\ Cardinality(EventPositions(log', "aboutToBeUnloaded", n)) = 1
                  /\ Cardinality(EventPositions(log', "drop", n)) = 1
                  /\ UnloadAttempts(log', n) # {}
                  /\ \A i \in EventPositions(log', "aboutToBeUnloaded", n) :
                       \A j \in EventPositions(log', "drop", n) :
                          /\ i < j
                          /\ \A k \in UnloadAttempts(log', n) : j < k
             ELSE /\ EventPositions(log', "aboutToBeUnloaded", n) = {}
                  /\ EventPositions(log', "drop", n) = {} ]_vars

\* B was torn down first, in three steps, and the library of the live
\* record C needed the destructor's second unload
C16_Witness ==
    /\ lastOp.op = "unload"
    /\ Len(log) >= 3
    /\ SubSeq(log, 1, 3) = << Event("aboutToBeUnloaded", "B"), Event("drop", "B"),
                              Event("unload", "B") >>
    /\ EventPositions(log, "drop", "C") # {}
    /\ EventPositions(log, "unloadFailed", "C") # {}
    /\ EventPositions(log, "unload", "C") # {}

(***************************************************************************)
(* C17: a candidate that searchForPlugins opened and did not store (its    *)
(* name is a key already, its metadata is rejected, or a symbol is         *)
(* missing) has its library unloaded again before the next candidate is    *)
(* opened and before the call returns: after a search the libraries the    *)
(* call left loaded are those of the records it added.                     *)
(***************************************************************************)
\* how many times a call opened the image at path p, less how many times
\* it unloaded it
LeftOpen(l, p) ==
    Cardinality(EventPositions(l, "libLoad", p))
      - Cardinality(EventPositions(l, "libUnload", p))

\* the paths of the records a step added
AddedPaths(before, after) ==
    { after[n].path : n \in DOMAIN after \ DOMAIN before }

DescriptorAt(p) ==
    CHOOSE f \in DOMAIN AllFiles : AllFiles[f].path = p

\* a snapshot returned by pluginInfo holds the fields of descriptor d
SameFields(snapshot, d) ==
    /\ snapshot.name = d.name
    /\ snapshot.prettyName = d.prettyName
    /\ snapshot.version = d.version
    /\ snapshot.author = d.author
    /\ snapshot.url = d.url
    /\ snapshot.license = d.license
    /\ snapshot.copyright = d.copyright
    /\ snapshot.dependenciesNb = Len(d.dependencies)
    /\ snapshot.dependencies = d.dependencies

C18_InfoRoundTrip ==
    \A n \in DOMAIN pluginsMap :
        LET d == AllFiles[DescriptorAt(pluginsMap[n].path)].jp_metadata IN
        SameFields(pluginInfo(pluginsMap, d.name), d)

(***************************************************************************)
(* C19: when every declared dependency of a record is in the registry at a *)
(* compatible version and the check of one of them returns a dependency    *)
(* code, the check of the record returns that code, the record's flag is   *)
(* still indeterminate after the check and after the loadPlugins pass, and *)
(* the record is no node of the graph of that pass and not in its load     *)
(* order.                                                                  *)
(***************************************************************************)
\* the positions of the declared dependencies of n whose own check does not
\* return SUCCESS
FailingChecks(pm, n) ==
    { k \in 1..Len(pm[n].info.dependencies) :
        CheckReturns(pm, pm[n].info.dependencies[k].name) # SUCCESS }

\* what the check of the first such dependency returns
PropagatedCode(pm, n) ==
    LET k == CHOOSE i \in FailingChecks(pm, n) :
                 \A j \in FailingChecks(pm, n) : i <= j
    IN CheckReturns(pm, pm[n].info.dependencies[k].name)

\* n is undecided, its declared dependencies are all there, and the check
\* of one of them returns a dependency code
FailsThroughDependency(pm, n) ==
    /\ pm[n].dependenciesExists = "Indeterminate"
    /\ Declared(pm, n) = Satisfied(pm, n)
    /\ FailingChecks(pm, n) # {}
    /\ PropagatedCode(pm, n) \in DependencyCodes

C19_PropagationLeavesFlag ==
    [][ lastOp'.op = "load" =>
          \A n \in DOMAIN pluginsMap :
             FailsThroughDependency(pluginsMap, n) =>
               /\ CheckReturns(pluginsMap, n) = PropagatedCode(pluginsMap, n)
               /\ checkDependencies(pluginsMap, n, {}, FALSE).pm[n].dependenciesExists
                      = "Indeterminate"
               /\ pluginsMap'[n].dependenciesExists = "Indeterminate"
               /\ pluginsMap'[n].graphId = -1
               /\ n \notin Live(pluginsMap')
               /\ lastRet' = SUCCESS => n \notin Range(loadOrderList') ]_vars

\* a continuing pass loaded C and left A undecided: B, the dependency of A,
\* is in the registry at a compatible version and is flagged as failed
C19_Witness ==
    /\ lastOp.op = "load"
    /\ lastOp.tryToContinue
    /\ lastRet = SUCCESS
    /\ { "A", "B", "C" } \subseteq DOMAIN pluginsMap
    /\ Declared(pluginsMap, "A") = Satisfied(pluginsMap, "A")
    /\ pluginsMap["B"].dependenciesExists = "False"
    /\ pluginsMap["A"].dependenciesExists = "Indeterminate"
    /\ loadOrderList = << "C" >>

(***************************************************************************)
(* C20: searchForPlugins only adds.  Every record of the registry before   *)
(* the call is a record after it, with the same path, metadata, library,   *)
(* instance, flag and graph node; the call changes neither the load-order  *)
(* list nor the set of records that have an instance, and no plugin gets   *)
(* loaded() or aboutToBeUnloaded() from it.                                *)
(***************************************************************************)
\* the events of a call that reach a plugin instance
Notifications(l) ==
    SelectSeq(l, LAMBDA x : x.ev \in { "create", "loaded", "aboutToBeUnloaded", "drop" })

C20_SearchOnlyAdds ==
    [][ lastOp'.op = "search" =>
          /\ DOMAIN pluginsMap \subseteq DOMAIN pluginsMap'
          /\ \A n \in DOMAIN pluginsMap : pluginsMap'[n] = pluginsMap[n]
          /\ \A n \in DOMAIN pluginsMap' \ DOMAIN pluginsMap :
                ~pluginsMap'[n].iplugin
          /\ Live(pluginsMap') = Live(pluginsMap)
          /\ loadOrderList' = loadOrderList
          /\ loadedSeq' = loadedSeq
          /\ Notifications(log') = <<>> ]_vars

\* a search added B and V to a registry in which C was live and A had been
\* flagged as failed
C20_Witness ==
    /\ lastOp.op = "search"
    /\ lastRet = SUCCESS
    /\ DOMAIN pluginsMap = { "A", "B", "C", "V" }
    /\ Live(pluginsMap) = { "C" }
    /\ loadOrderList = << "C" >>
    /\ pluginsMap["A"].dependenciesExists = "False"
    /\ pluginsMap["B"].dependenciesExists = "Indeterminate"

(***************************************************************************)
(* C21: between the calls of searchForPlugins, loadPlugins and             *)
(* unloadPlugins every name in the load-order list is a key of the         *)
(* registry, and no unloadPlugins call looks up a name that is not a key   *)
(* (which would store a null PluginPtr and dereference it), also when      *)
(* unloadPlugins is called twice or is followed by a search and another    *)
(* unloadPlugins without a loadPlugins call between them.                  *)
(***************************************************************************)
C21_ListedNamesAreRecords ==
    /\ Range(loadOrderList) \subseteq DOMAIN pluginsMap
    /\ lastOp.op = "unload" =>
          /\ lastRet \in { SUCCESS, UNLOAD_NOT_ALL }
          /\ EventNames(log, "nullDeref") = <<>>

(***************************************************************************)
(* C22: between the calls of searchForPlugins, loadPlugins and             *)
(* unloadPlugins every record that has an instance has its library loaded, *)
(* has dependenciesExists true, is in the load-order list, and each        *)
(* dependency it declares is a record of the registry that has an instance *)
(* as well.                                                                *)
(***************************************************************************)
C22_LiveRecordsAreSound ==
    \A n \in Live(pluginsMap) :
        /\ isPluginLoaded(pluginsMap, n)
        /\ pluginsMap[n].libLoaded
        /\ pluginsMap[n].dependenciesExists = "True"
        /\ n \in Range(loadOrderList)
        /\ \A k \in 1..Len(pluginsMap[n].info.dependencies) :
              /\ pluginsMap[n].info.dependencies[k].name \in DOMAIN pluginsMap
              /\ pluginsMap[n].info.dependencies[k].name \in Live(pluginsMap)

\* the chain A -> B -> C is live next to V, whose dependency B is too old,
\* after a search that added nothing to the registry
C22_Witness ==
    /\ lastOp.op = "search"
    /\ Live(pluginsMap) = { "A", "B", "C" }
    /\ "V" \in DOMAIN pluginsMap
    /\ pluginsMap["V"].dependenciesExists = "False"
    /\ loadOrderList = << "C", "B", "A" >>

(***************************************************************************)
(* C23: in every loadPlugins pass that gets to build the graph, the nodes  *)
(* are the records whose dependenciesExists is true, numbered from 0 in    *)
(* the order they were met, and each parent index of a node is the graphId *)
(* of a record that is a node of this pass: every declared dependency of a *)
(* node is a key of the registry and its graphId is not -1.  Building the  *)
(* graph therefore never looks up a missing name and never indexes the     *)
(* node list with -1.                                                      *)
(***************************************************************************)
\* the records that have a node
GraphNodes(pm) == { n \in DOMAIN pm : pm[n].graphId # -1 }

\* the pass got past its first loop
ReachedGraph(ret, d, pm) ==
    \/ ret \in { SUCCESS, LOAD_DEPENDENCY_CYCLE }
    \/ ret = NO_RETURN /\ d <= Cardinality(DOMAIN pm)

C23_GraphIsWellFormed ==
    [][ (lastOp'.op = "load" /\ ReachedGraph(lastRet', depth', pluginsMap)) =>
          /\ lastRet' # NO_RETURN
          /\ GraphNodes(pluginsMap')
               = { n \in DOMAIN pluginsMap' : pluginsMap'[n].dependenciesExists = "True" }
          /\ { pluginsMap'[n].graphId : n \in GraphNodes(pluginsMap') }
               = 0..(Cardinality(GraphNodes(pluginsMap')) - 1)
          /\ \A n \in GraphNodes(pluginsMap') :
               /\ ParentsValid(pluginsMap', n)
               /\ \A k \in 1..Len(ParentNodes(pluginsMap', n)) :
                    \E m \in GraphNodes(pluginsMap') :
                       pluginsMap'[m].graphId = ParentNodes(pluginsMap', n)[k] ]_vars

\* a continuing pass after an earlier pass and a search: B and C are nodes,
\* A is undecided and V is flagged as failed, and neither is a node
C23_Witness ==
    /\ lastOp.op = "load"
    /\ lastOp.tryToContinue
    /\ lastRet = SUCCESS
    /\ DOMAIN pluginsMap = { "A", "B", "C", "V" }
    /\ GraphNodes(pluginsMap) = { "B", "C" }
    /\ pluginsMap["A"].dependenciesExists # "True"
    /\ pluginsMap["V"].dependenciesExists = "False"
====
